---- MODULE Spec2Model ----
(***************************************************************************)
(* A model of de.js, the runtime function decryption tool of               *)
(* webfunny_dejs: the textual normalizer of reversed string literals and   *)
(* the pipeline of processWithNewStrategy / main (helper extraction, call  *)
(* extraction, evaluation in a vm context, replacement, cleanup, output).  *)
(*                                                                         *)
(* A source file is modelled as a piece of text (the part the textual      *)
(* normalizer looks at, a sequence of one-character strings) followed by a *)
(* sequence of statements: helper definitions and helper calls.  The       *)
(* printed form of a call (generate(node).code, path.toString()) is        *)
(* modelled by the structure it prints: callee and argument nodes.  The    *)
(* printer is taken to be stable on the modelled sources                   *)
(* (generate(parse(S)) = S).                                               *)
(***************************************************************************)
EXTENDS Integers, Sequences, FiniteSets, TLC

VARIABLES
  \* ---- the normalizer on its own (SpecNormalize)
  nText,          \* a text the normalizer is applied to
  nOnce,          \* processStringReverse(nText)
  nTwice,         \* processStringReverse(processStringReverse(nText))
  nPasses,        \* how many times the normalizer has run (0..2)
  \* ---- the dependency analysis alone (SpecResolve, SpecSort)
  rpc,            \* collectInitializationFunctionCalls: "seeds", "loop", "done"
  rCalls,         \* initializationCalls
  rRound,         \* how many rounds of the while loop have run
  rAdded,         \* the names the last round added
  tGraph,         \* topologicalSort: the graph, [keys, deps]
  tResult,        \* what topologicalSort gave: [o, result]
  \* ---- one run of main (Spec)
  src,            \* the source file: [text, parses, stmts]
  cfg,            \* the config object
  pc,             \* where the run is
  processedCode,  \* processWithNewStrategy: processedCode
  extractedFunctions, \* names of the extracted helper definitions, in order
  actualCalls,    \* extractActualFunctionCalls' result
  testCode,       \* the generated evaluator program, a sequence of instructions
  ip,             \* the instruction the vm executes next
  vmEnv,          \* helper names bound to a function in the vm context
  globalResults,  \* the Map injected into the vm context
  callExpressionMap, \* the Map handed to the rewriter
  vmStatus,       \* Step 5: "none", "ok" (runInContext returned), "threw" (catch)
  timer,          \* the setTimeout of Step 5: "none", "armed", "cleared", "fired"
  clock,          \* milliseconds since the timer was armed
  finalCode,      \* what processWithNewStrategy returns (null: the field null)
  outFile,        \* what main wrote to outputPath (written: whether it wrote)
  consoleLog,     \* the console.log of the host console: "original" or "silent"
  exitCode,       \* the exit code of the process ("running" until it ends)
  \* ---- runs of main on one file (SpecBackup)
  bpc,            \* where main is: "idle" between two runs
  argv,           \* the arguments of the run: [backup, output]
  files,          \* the files on disk: [input, bak, other]
  sourceCode,     \* main: what readFileSync gave
  mainResult,     \* main: what processWithNewStrategy gave
  hist            \* what happened so far: [runs, first, stale, fits]

nvars == <<nText, nOnce, nTwice, nPasses>>
dvars == <<rpc, rCalls, rRound, rAdded, tGraph, tResult>>
bvars == <<bpc, argv, files, sourceCode, mainResult, hist>>
pvars == <<src, cfg, pc, processedCode, extractedFunctions, actualCalls,
           testCode, ip, vmEnv, globalResults, callExpressionMap, vmStatus,
           timer, clock, finalCode, outFile, consoleLog, exitCode>>
vars == <<nText, nOnce, nTwice, nPasses, rpc, rCalls, rRound, rAdded, tGraph,
          tResult, src, cfg, pc, processedCode,
          extractedFunctions, actualCalls, testCode, ip, vmEnv, globalResults,
          callExpressionMap, vmStatus, timer, clock, finalCode, outFile,
          consoleLog, exitCode, bpc, argv, files, sourceCode, mainResult,
          hist>>

----------------------------------------------------------------------------
(* Bounds of the model *)

\* tokens (a quote, a letter, or the whole method chain) in a normalizer input
MaxToks == 4
\* helper call sites in a source file
MaxSites == 2
\* the clock stops advancing at MaxClock (it only needs to pass the timeout)
MaxClock == 45000
\* the clock's step
TickMs == 15000

(* Program constants *)

\* --min-args, --max-args defaults
minArgs == 4
maxArgs == 6
\* const maxExecutionTime = 30000
maxExecutionTime == 30000

----------------------------------------------------------------------------
(* Sequences *)

Reverse(s) == [i \in 1..Len(s) |-> s[Len(s) + 1 - i]]

RECURSIVE Flatten(_)
Flatten(ss) == IF ss = <<>> THEN <<>> ELSE Head(ss) \o Flatten(Tail(ss))

SeqsUpTo(S, n) == UNION {[1..k -> S] : k \in 0..n}

----------------------------------------------------------------------------
(* processStringReverse: code.replace(pattern, ...), where pattern is a    *)
(* double-quoted run of non-quote characters followed by the method chain  *)
(* split, reverse, join (flag g), on a text given as a sequence of         *)
(* one-character strings.                                                  *)

Q == "\""

\* the method chain of the idiom: split, reverse, join
Chain == <<".", "s", "p", "l", "i", "t", "(", Q, Q, ")",
           ".", "r", "e", "v", "e", "r", "s", "e", "(", ")",
           ".", "j", "o", "i", "n", "(", Q, Q, ")">>

\* the first quote after position i (0 when there is none): the character
\* class of the pattern cannot cross a quote, so the literal opened at i closes there or nowhere
NextQuote(s, i) ==
  LET js == {j \in (i + 1)..Len(s) : s[j] = Q}
  IN  IF js = {} THEN 0 ELSE CHOOSE j \in js : \A k \in js : j <= k

\* the closing quote of a match of the pattern that starts at i, or 0
MatchEnd(s, i) ==
  IF s[i] # Q THEN 0
  ELSE LET j == NextQuote(s, i)
       IN  IF j # 0 /\ j + Len(Chain) <= Len(s)
              /\ SubSeq(s, j + 1, j + Len(Chain)) = Chain
           THEN j ELSE 0

\* the replacement callback: the reversed capture between quotes
Replacement(originalString) == <<Q>> \o Reverse(originalString) \o <<Q>>

\* the start of the leftmost match at or after i (0 when there is none)
NextMatch(s, i) ==
  LET ms == {m \in i..Len(s) : MatchEnd(s, m) # 0}
  IN  IF ms = {} THEN 0 ELSE CHOOSE m \in ms : \A k \in ms : m <= k

\* the global replace: the text up to the leftmost match is kept, the match
\* is replaced, and the search goes on from the end of the match
RECURSIVE ReplaceFrom(_, _)
ReplaceFrom(s, i) ==
  LET m == NextMatch(s, i)
  IN  IF m = 0 THEN SubSeq(s, i, Len(s))
      ELSE LET j == MatchEnd(s, m)
           IN  SubSeq(s, i, m - 1)
                 \o Replacement(SubSeq(s, m + 1, j - 1))
                 \o ReplaceFrom(s, j + Len(Chain) + 1)

processStringReverse(code) == ReplaceFrom(code, 1)

\* the pattern matches somewhere in s
HasIdiom(s) == \E i \in 1..Len(s) : MatchEnd(s, i) # 0

\* preprocessCode: processStringReverse, whatever the config says
preprocessCode(code) == processStringReverse(code)

----------------------------------------------------------------------------
(* JavaScript values, named by strings *)

Numbers == {"0", "-0", "1", "2", "3", "4", "5", "-1", "-5", "Infinity", "-Infinity"}

\* unary minus on a number
Negate(v) ==
  CASE v = "0" -> "-0"
    [] v = "-0" -> "0"
    [] v = "1" -> "-1"
    [] v = "-1" -> "1"
    [] v = "5" -> "-5"
    [] v = "-5" -> "5"
    [] v = "Infinity" -> "-Infinity"
    [] v = "-Infinity" -> "Infinity"
    [] OTHER -> "NaN"

\* typeof v ("object" for null, as in JavaScript)
TypeOf(v) ==
  CASE v \in Numbers \cup {"NaN"} -> "number"
    [] v \in {"true", "false"} -> "boolean"
    [] v = "undefined" -> "undefined"
    [] v = "str" -> "string"
    [] OTHER -> "object"

\* an element of JSON.stringify(args), read back as a literal of the
\* generated program: non-finite numbers and undefined become null, -0
\* becomes 0
JSONValue(v) ==
  CASE v \in {"Infinity", "-Infinity", "NaN", "undefined"} -> "null"
    [] v = "-0" -> "0"
    [] OTHER -> v

JSONStringify(args) == [i \in 1..Len(args) |-> JSONValue(args[i])]

----------------------------------------------------------------------------
(* Syntax: argument nodes, statements *)

Num(v) == [type |-> "NumericLiteral", value |-> v]
Ident(n) == [type |-> "Identifier", value |-> n]
\* UnaryExpression with operator - on NumericLiteral v
Minus(v) == [type |-> "UnaryExpression", value |-> v]

\* Every statement carries st, what the run has made of it: "same" (as in
\* the source), "lit" (a call replaced by the literal lit), "removed",
\* "commented".
\* A helper definition: kind is "declaration" (function f() {...}) or
\* "expression" (var f = function () {...}); ret is what the body does:
\*   "arg"   return a          (its first parameter)
\*   "obj"   return [a]        (an array)
\*   "throw" throw new Error(...)
\*   "thrownull" throw null
\*   "loop"  while (true) {}
\*   "call"  return dep(a, b, c, d)   (dep: another helper)
\* exp is how it is exported: "none", "declaration" (export function ...),
\* or "list" (function f() {...} and, apart, export { f })
Def(name, kind, ret, dep, exp) ==
  [t |-> "def", name |-> name, kind |-> kind, ret |-> ret, dep |-> dep,
   exp |-> exp, ctx |-> "", ctype |-> "", args |-> <<>>, wrap |-> "",
   st |-> "same", lit |-> ""]

\* a statement holding one call: callee ctype.name ("Identifier": name(...),
\* "MemberExpression": obj.name(...)), argument nodes args; ctx is where the
\* call stands: "stmt" (f(..);), "init" (var x = f(..);), "assign"
\* (x = f(..);), "prop" (var o = {p: f(..)};), "elem" (var a = [f(..)];);
\* wrap is what encloses the statement: "none", "iife"
\* ((function () { ... })();), "dowhile", "try"
Site(ctx, ctype, name, args, wrap) ==
  [t |-> "call", name |-> name, kind |-> "", ret |-> "", dep |-> "",
   exp |-> "", ctx |-> ctx, ctype |-> ctype, args |-> args, wrap |-> wrap,
   st |-> "same", lit |-> ""]

\* the parameters a helper passes on to the helper it calls
Params == <<Ident("a"), Ident("b"), Ident("c"), Ident("d")>>

\* the call in the body of a helper whose ret is "call"
BodyCall(d) == Site("stmt", "Identifier", d.dep, Params, "none")

\* the printed form of a call node (path.toString(), generate(node).code),
\* given by what it prints: the callee and the arguments
PrintCall(c) == [ctype |-> c.ctype, name |-> c.name, args |-> c.args]

\* node.toString() of a plain object: the text [object Object]
ObjectObject == [ctype |-> "[object Object]", name |-> "", args |-> <<>>]

----------------------------------------------------------------------------
(* extractFunctionName, shouldInterceptFunction, extractConstantArguments, *)
(* isInitializationFunction                                                *)

reservedKeywords ==
  {"default", "function", "var", "let", "const", "if", "else", "for",
   "while", "do", "switch", "case", "break", "continue", "return", "this",
   "typeof", "instanceof", "new", "delete", "void", "in", "try", "catch",
   "finally", "throw", "class", "extends", "super", "import", "export",
   "null", "true", "false", "undefined", "NaN", "Infinity"}

\* extractFunctionName without the test of reservedKeywords
extractFunctionNameUnguarded(callee) ==
  IF callee.ctype \in {"Identifier", "MemberExpression"} THEN callee.name ELSE ""

\* the name of the callee, "" for null
extractFunctionName(callee) ==
  IF callee.ctype = "Identifier" THEN callee.name
  ELSE IF callee.ctype = "MemberExpression"
       THEN IF callee.name \in reservedKeywords THEN "" ELSE callee.name
       ELSE ""

\* argsCount is only reported (the verbose message), never a reason to refuse
shouldInterceptFunction(funcName, argsCount) ==
  IF cfg.hasFunctionName /\ funcName \notin cfg.functionNamePattern THEN FALSE
  ELSE IF funcName \notin cfg.interceptPattern THEN FALSE
  ELSE TRUE

\* extractConstantArguments taking every identifier for a constant
ConstantArgumentOrIdentifier(arg) ==
  IF arg.type = "UnaryExpression" THEN Negate(arg.value) ELSE arg.value

\* the value of one argument node, "undefined" for a node that is no constant
ConstantArgument(arg) ==
  CASE arg.type = "NumericLiteral" -> arg.value
    [] arg.type = "StringLiteral" -> arg.value
    [] arg.type = "BooleanLiteral" -> arg.value
    [] arg.type = "NullLiteral" -> "null"
    [] arg.type = "Identifier" /\ arg.value = "undefined" -> "undefined"
    [] arg.type = "UnaryExpression" -> Negate(arg.value)
    [] OTHER -> "undefined"

extractConstantArguments(arguments) ==
  [i \in 1..Len(arguments) |-> ConstantArgument(arguments[i])]

\* an ancestor is a call of a function expression, a do-while or a try
isInitializationFunction(c) == c.wrap \in {"iife", "dowhile", "try"}

----------------------------------------------------------------------------
(* Traversal *)

\* the elements of a set of numbers in increasing order
RECURSIVE Sorted(_)
Sorted(S) ==
  IF S = {} THEN <<>>
  ELSE LET m == CHOOSE x \in S : \A y \in S : x <= y
       IN  <<m>> \o Sorted(S \ {m})

Range(f) == {f[i] : i \in DOMAIN f}

\* the call nodes of statement i of a code, in document order: the call of a
\* call statement that is still a call, the call in the body of a helper
CallNodesAt(code, i) ==
  LET s == code.stmts[i]
  IN  IF s.t = "call" /\ s.st = "same" THEN <<s>>
      ELSE IF s.t = "def" /\ s.st = "same" /\ s.ret = "call" THEN <<BodyCall(s)>>
      ELSE <<>>

\* FunctionDeclaration, or VariableDeclarator whose init is a FunctionExpression
IsFunctionDefinition(s) ==
  s.t = "def" /\ s.st = "same" /\ s.kind \in {"declaration", "expression"}

\* an ExpressionStatement whose expression calls a FunctionExpression
IsImmediateFunction(s) == s.t = "call" /\ s.wrap = "iife" /\ s.st \in {"same", "lit"}

----------------------------------------------------------------------------
(* collectInitializationFunctionCalls *)

\* the first traversal: the helpers called in an initializer context
InitializationSeeds(code) ==
  {extractFunctionName(c) :
     c \in {c \in UNION {Range(CallNodesAt(code, i)) : i \in DOMAIN code.stmts} :
              /\ extractFunctionName(c) # ""
              /\ extractFunctionName(c) \in cfg.interceptPattern
              /\ isInitializationFunction(c)}}

\* one round of the while loop: the helpers called in the bodies of the
\* definitions whose name is in currentCalls
NestedDependencies(code, currentCalls) ==
  {extractFunctionName(c) :
     c \in {c \in UNION {Range(CallNodesAt(code, i)) :
                          i \in {i \in DOMAIN code.stmts :
                                   /\ IsFunctionDefinition(code.stmts[i])
                                   /\ code.stmts[i].name \in currentCalls}} :
              /\ extractFunctionName(c) # ""
              /\ extractFunctionName(c) \in cfg.interceptPattern}}

\* while (hasNewDependencies)
RECURSIVE DependencyLoop(_, _)
DependencyLoop(code, initializationCalls) ==
  LET added == NestedDependencies(code, initializationCalls) \ initializationCalls
  IN  IF added = {} THEN initializationCalls
      ELSE DependencyLoop(code, initializationCalls \cup added)

collectInitializationFunctionCalls(code) ==
  IF ~code.parses THEN {}
  ELSE DependencyLoop(code, InitializationSeeds(code))

----------------------------------------------------------------------------
(* extractImmediateFunctions *)

\* functions: the statements (by position) whose code is pushed. An
\* immediately invoked function statement is pushed by the
\* ExpressionStatement visitor and again, wrapped in parentheses, by the
\* CallExpression visitor. dependencies: the helpers called inside.
extractImmediateFunctions(code) ==
  IF ~code.parses THEN [functions |-> <<>>, dependencies |-> {}]
  ELSE
  LET at == Sorted({i \in DOMAIN code.stmts : IsImmediateFunction(code.stmts[i])})
  IN  [functions |-> Flatten([k \in DOMAIN at |-> <<at[k], at[k]>>]),
       dependencies |->
         {extractFunctionName(code.stmts[i]) :
            i \in {i \in Range(at) :
                     /\ code.stmts[i].st = "same"
                     /\ extractFunctionName(code.stmts[i]) # ""
                     /\ extractFunctionName(code.stmts[i]) \in cfg.interceptPattern}}]

----------------------------------------------------------------------------
(* extractFunctionDefinitions: the names of the extracted definitions, in  *)
(* order (functions); functionCodeMap maps each to its definition          *)

\* the first traversal with the FunctionDeclaration visitor alone
extractFunctionDeclarations(code) ==
  IF ~code.parses THEN <<>>
  ELSE
  LET all == Sorted({i \in DOMAIN code.stmts :
                       /\ IsFunctionDefinition(code.stmts[i])
                       /\ code.stmts[i].kind = "declaration"
                       /\ code.stmts[i].name \in cfg.interceptPattern})
  IN  [k \in DOMAIN all |-> code.stmts[all[k]].name]

\* the second traversal alone: the definitions named in allDependencies
extractDependencyDefinitions(code) ==
  IF ~code.parses THEN <<>>
  ELSE
  LET allDependencies ==
        collectInitializationFunctionCalls(code)
          \cup extractImmediateFunctions(code).dependencies
      all == Sorted({i \in DOMAIN code.stmts :
                       /\ IsFunctionDefinition(code.stmts[i])
                       /\ code.stmts[i].name \in allDependencies})
  IN  [k \in DOMAIN all |-> code.stmts[all[k]].name]

extractFunctionDefinitions(code) ==
  IF ~code.parses THEN <<>>
  ELSE
  LET allFunctions ==
        Sorted({i \in DOMAIN code.stmts :
                  /\ IsFunctionDefinition(code.stmts[i])
                  /\ code.stmts[i].name \in cfg.interceptPattern})
      functionNames == {code.stmts[i].name : i \in Range(allFunctions)}
      allDependencies ==
        collectInitializationFunctionCalls(code)
          \cup extractImmediateFunctions(code).dependencies
      supplement ==
        Sorted({i \in DOMAIN code.stmts :
                  /\ IsFunctionDefinition(code.stmts[i])
                  /\ code.stmts[i].name \in allDependencies
                  /\ code.stmts[i].name \notin functionNames})
      all == allFunctions \o supplement
  IN  [k \in DOMAIN all |-> code.stmts[all[k]].name]

\* functionCodeMap.get(name): the last definition of that name
DefinitionOf(code, name) ==
  LET at == {i \in DOMAIN code.stmts :
               code.stmts[i].t = "def" /\ code.stmts[i].name = name}
  IN  code.stmts[CHOOSE i \in at : \A j \in at : j <= i]

----------------------------------------------------------------------------
(* extractActualFunctionCalls *)

\* what the visitors push for the call of statement i: the visitor of the
\* enclosing node (VariableDeclarator, AssignmentExpression, ObjectProperty,
\* ArrayExpression) runs first and keys the call by node.toString(), then
\* the CallExpression visitor keys it by path.toString()
ActualCallsAt(code, i) ==
  LET cs == CallNodesAt(code, i)
  IN  IF cs = <<>> THEN <<>>
      ELSE
      LET c == cs[1]
          funcName == extractFunctionName(c)
          args == extractConstantArguments(c.args)
          allConstants == \A k \in DOMAIN args : args[k] # "undefined"
          accepted ==
            /\ funcName # ""
            /\ shouldInterceptFunction(funcName, Len(c.args))
            /\ ~isInitializationFunction(c)
            /\ allConstants
          entry(callExpression) ==
            [callExpression |-> callExpression, funcName |-> funcName,
             args |-> args, path |-> i]
      IN  IF ~accepted THEN <<>>
          ELSE IF c.ctx \in {"init", "assign", "prop", "elem"}
               THEN <<entry(ObjectObject), entry(PrintCall(c))>>
               ELSE <<entry(PrintCall(c))>>

extractActualFunctionCalls(code) ==
  IF ~code.parses THEN <<>>
  ELSE Flatten([i \in DOMAIN code.stmts |-> ActualCallsAt(code, i)])

----------------------------------------------------------------------------
(* generateFunctionTestCode: the generated program as a sequence of        *)
(* instructions                                                            *)

Instr(op, at, funcName, args, key) ==
  [op |-> op, at |-> at, funcName |-> funcName, args |-> args, key |-> key]

\* the keys of a Map filled in the order of names: each name once, at its
\* first place
RECURSIVE MapKeys(_)
MapKeys(names) ==
  IF names = <<>> THEN <<>>
  ELSE LET rest == MapKeys(SubSeq(names, 1, Len(names) - 1))
           last == names[Len(names)]
       IN  IF last \in Range(rest) THEN rest ELSE Append(rest, last)

\* console.log = () => {}; the immediately invoked functions of the
\* original code; the helper definitions; testActualCalls: one safeCall per
\* actual call, with JSON.stringify(call.args) as its arguments, and then
\* console.log = originalConsoleLog
generateFunctionTestCode(functionCodeMap, calls, originalCode) ==
  LET immediate == extractImmediateFunctions(originalCode).functions
      names == MapKeys(functionCodeMap)
  IN  <<Instr("silence", 0, "", <<>>, ObjectObject)>>
      \o [k \in DOMAIN immediate |->
            Instr("immediate", immediate[k], "", <<>>, ObjectObject)]
      \o [k \in DOMAIN names |-> Instr("define", 0, names[k], <<>>, ObjectObject)]
      \o [k \in DOMAIN calls |->
            Instr("safeCall", 0, calls[k].funcName,
                  JSONStringify(calls[k].args), calls[k].callExpression)]
      \o <<Instr("restore", 0, "", <<>>, ObjectObject)>>

----------------------------------------------------------------------------
(* Evaluation in the vm context *)

\* function declarations are hoisted: bound before the program's first
\* statement runs. A function expression is bound when its assignment runs.
Hoisted(code, names) ==
  {n \in Range(names) : DefinitionOf(code, n).kind = "declaration"}

Returns(v) == [o |-> "return", v |-> v]
Throws == [o |-> "throw", v |-> ""]
\* a thrown value that has no properties (null, undefined)
ThrowsNull == [o |-> "throw", v |-> "null"]
Loops == [o |-> "loop", v |-> ""]

\* a chain of calls deeper than MaxDepth never ends (the helpers call each
\* other in a cycle): the engine throws RangeError
MaxDepth == 3

\* funcName(...args) with the helpers of env bound
RECURSIVE CallHelper(_, _, _, _, _)
CallHelper(code, env, funcName, args, depth) ==
  IF funcName \notin env THEN Throws
  ELSE LET d == DefinitionOf(code, funcName)
       IN  CASE d.ret = "arg" -> Returns(IF args = <<>> THEN "undefined" ELSE args[1])
             [] d.ret = "obj" -> Returns("[array]")
             [] d.ret = "throw" -> Throws
             [] d.ret = "thrownull" -> ThrowsNull
             [] d.ret = "loop" -> Loops
             [] d.ret = "call" ->
                  IF depth >= MaxDepth THEN Throws
                  ELSE CallHelper(code, env, d.dep, args, depth + 1)

\* the value of an argument node where it stands in a program; "" when
\* evaluating it throws (a free identifier)
ArgumentValue(arg) ==
  IF arg.type = "Identifier" /\ arg.value # "undefined" THEN ""
  ELSE ConstantArgument(arg)

ArgumentValues(args) == [i \in 1..Len(args) |-> ArgumentValue(args[i])]

\* the call statement s evaluated with the helpers of env bound and nothing
\* else: obj and the free identifiers are not defined
EvaluateCall(code, env, s) ==
  IF s.ctype # "Identifier" THEN Throws
  ELSE IF s.name \notin env THEN Throws
  ELSE IF \E i \in DOMAIN s.args : ArgumentValue(s.args[i]) = "" THEN Throws
  ELSE CallHelper(code, env, s.name, ArgumentValues(s.args), 0)

\* Map
MapHas(m, k) == \E e \in m : e.key = k
MapGet(m, k) == (CHOOSE e \in m : e.key = k).value
MapSet(m, k, v) == {e \in m : e.key # k} \cup {[key |-> k, value |-> v]}

\* safeCall(func, args, callStr): the result, whatever it is, is stored
\* under callStr
safeCallStore(results, callStr, result) == MapSet(results, callStr, result)

----------------------------------------------------------------------------
(* applyCallExpressionReplacements *)

\* a rewriter that builds a literal for a result of any type
IsReplaceableAnyType(result) == TRUE

\* the literal node built for a result, by its type
IsReplaceable(result) ==
  \/ TypeOf(result) \in {"string", "number", "boolean"}
  \/ result = "null"
  \/ result = "undefined"

\* the CallExpression visitor on the call of statement s
ReplaceCall(s, map) ==
  IF /\ s.t = "call" /\ s.st = "same"
     /\ s.ctype = "Identifier"
     /\ s.name # "__interceptFunctionCall"
     /\ shouldInterceptFunction(s.name, Len(s.args))
     /\ MapHas(map, PrintCall(s))
     /\ IsReplaceable(MapGet(map, PrintCall(s)))
  THEN [s EXCEPT !.st = "lit", !.lit = MapGet(map, PrintCall(s))]
  ELSE s

\* the replacement without the test of config.disableReplace
applyReplacementsAlways(code, map) ==
  IF map = {} \/ ~code.parses THEN code
  ELSE [code EXCEPT !.stmts = [i \in DOMAIN code.stmts |-> ReplaceCall(code.stmts[i], map)]]

applyCallExpressionReplacements(code, map) ==
  IF cfg.disableReplace \/ map = {} THEN code
  ELSE IF ~code.parses THEN code
  ELSE [code EXCEPT !.stmts = [i \in DOMAIN code.stmts |-> ReplaceCall(code.stmts[i], map)]]

----------------------------------------------------------------------------
(* analyzeFunctionsForCleanup, cleanupDecryptedFunctions *)

\* immediate_ and the first 10 characters of the base64 of the statement's
\* code, which encode its first 7 characters: every printed statement that
\* calls a function expression starts (function
ImmediateKey(s) == "immediate_KGZ1bmN0aW"

\* ExportNamedDeclaration, ExportDefaultDeclaration of a FunctionDeclaration
ExportedFunctions(code) ==
  {s.name : s \in {s \in Range(code.stmts) :
                     s.t = "def" /\ s.st = "same" /\ s.kind = "declaration"
                     /\ s.exp = "declaration"}}

\* functionReferences.get(funcName) after the traversal: a definition sets
\* the count to 0, a call counts when the name is in allFunctions already
ReferenceCount(code, funcName) ==
  LET defs == {i \in DOMAIN code.stmts :
                 /\ IsFunctionDefinition(code.stmts[i])
                 /\ code.stmts[i].name = funcName}
      last == CHOOSE i \in defs : \A j \in defs : j <= i
  IN  Cardinality({j \in DOMAIN code.stmts :
                     /\ j >= last
                     /\ CallNodesAt(code, j) # <<>>
                     /\ extractFunctionName(CallNodesAt(code, j)[1]) = funcName})

\* the analysis with the branch that adds the key of every immediately
\* invoked function, whatever it calls
analyzeEveryImmediateFunction(code, map, calls) ==
  IF ~code.parses THEN [functions |-> {}, immediateFunctions |-> {}]
  ELSE [functions |-> {},
        immediateFunctions |->
          {ImmediateKey(s) : s \in {s \in Range(code.stmts) : IsImmediateFunction(s)}}]

\* functions: the helpers marked dead. immediateFunctions: the keys of the
\* immediately invoked functions to clean; the traversal that looks inside
\* such a statement is started on a FunctionExpression without a scope, so
\* traverse throws before the key is added and the catch block returns the
\* sets as they are; with no such statement nothing is added either.
analyzeFunctionsForCleanup(code, map, calls) ==
  IF ~code.parses THEN [functions |-> {}, immediateFunctions |-> {}]
  ELSE
  LET allFunctions ==
        {s.name : s \in {s \in Range(code.stmts) :
                           IsFunctionDefinition(s) /\ s.name \in cfg.interceptPattern}}
      callsOf(funcName) == {k \in DOMAIN calls : calls[k].funcName = funcName}
      isOnlyCalledByConstants(funcName) == callsOf(funcName) # {}
  IN  [functions |->
         {f \in allFunctions :
            /\ f \notin ExportedFunctions(code)
            /\ isOnlyCalledByConstants(f)
            /\ ReferenceCount(code, f) <= Cardinality(callsOf(f))},
       immediateFunctions |-> {}]

\* cleanupMode is "comment" or "remove" here: path.remove(), or
\* path.replaceWithMultiple with the statements of a program made of the
\* comment alone
CleanupStatement(s, cleanupData, cleanupMode) ==
  LET done == IF cleanupMode = "comment" THEN "commented" ELSE "removed"
  IN  IF IsFunctionDefinition(s) /\ s.name \in cleanupData.functions
      THEN [s EXCEPT !.st = done]
      ELSE IF IsImmediateFunction(s) /\ ImmediateKey(s) \in cleanupData.immediateFunctions
           THEN [s EXCEPT !.st = done]
           ELSE s

\* what generate prints for a statement: "code" (its printed form), the
\* literal in place of a call, or "nothing". A removed statement prints
\* nothing; so does a commented one: the program parsed from the comment has
\* no statement, and replaceWithMultiple with no node removes the path
PrintedAs(s) ==
  CASE s.st = "same" -> "code"
    [] s.st = "lit" -> "literal"
    [] s.st = "removed" -> "nothing"
    [] s.st = "commented" -> "nothing"

cleanupDecryptedFunctions(code, cleanupData, cleanupMode) ==
  IF (cleanupData.functions = {} /\ cleanupData.immediateFunctions = {})
     \/ cleanupMode = "none"
  THEN code
  ELSE IF ~code.parses THEN code
  ELSE [code EXCEPT !.stmts =
          [i \in DOMAIN code.stmts |->
             CleanupStatement(code.stmts[i], cleanupData, cleanupMode)]]

----------------------------------------------------------------------------
(* Inputs: source files and configurations *)

BaseArgs == <<Num("1"), Num("2"), Num("3"), Num("4")>>
WithArg(a) == <<a, Num("2"), Num("3"), Num("4")>>

\* call statements: f1(1, 2, 3, 4); and its variations in one respect
SiteVariants ==
  [k \in 1..5 |->
     Site(<<"stmt", "init", "assign", "prop", "elem">>[k], "Identifier", "f1", BaseArgs, "none")]
  \o [k \in 1..3 |->
        Site("stmt", "Identifier", "f1", BaseArgs, <<"iife", "dowhile", "try">>[k])]
  \o [k \in 1..4 |->
        Site("stmt", "Identifier", "f1",
             WithArg(<<Num("5"), Num("Infinity"), Ident("k"), Ident("undefined")>>[k]), "none")]
  \o <<Site("stmt", "Identifier", "f2", BaseArgs, "none"),
       Site("stmt", "MemberExpression", "f1", BaseArgs, "none"),
       Site("stmt", "MemberExpression", "default", BaseArgs, "none"),
       Site("stmt", "Identifier", "f1", <<Num("1"), Num("2"), Num("3")>>, "none")>>

\* the call statements of a source file, in the order of SiteVariants (the
\* calls of f1 come before the call of f2); a file with more than two call
\* statements has the plain call statement first
SiteLists ==
  {[k \in DOMAIN f |-> SiteVariants[f[k]]] :
     f \in {f \in SeqsUpTo(DOMAIN SiteVariants, MaxSites) :
              /\ \A k \in 1..(Len(f) - 1) : f[k] <= f[k + 1]
              /\ Len(f) > 2 => f[1] = 1}}

\* the helper definitions of a source file
DefLayouts ==
  {<<>>,
   <<Def("f1", "declaration", "arg", "", "none")>>,
   <<Def("f1", "declaration", "obj", "", "none")>>,
   <<Def("f1", "declaration", "throw", "", "none")>>,
   <<Def("f1", "declaration", "loop", "", "none")>>,
   <<Def("f1", "expression", "arg", "", "none")>>,
   <<Def("f1", "declaration", "arg", "", "declaration")>>,
   <<Def("f1", "declaration", "arg", "", "list")>>,
   <<Def("f1", "declaration", "arg", "", "none"),
     Def("f2", "declaration", "call", "f1", "none")>>,
   <<Def("f2", "declaration", "call", "f1", "none"),
     Def("f1", "declaration", "arg", "", "none")>>,
   <<Def("f1", "declaration", "call", "f2", "none"),
     Def("f2", "declaration", "call", "f1", "none")>>,
   <<Def("f1", "declaration", "call", "f1", "none")>>,
   <<Def("f1", "declaration", "arg", "", "none"),
     Def("f2", "declaration", "arg", "", "none")>>,
   <<Def("f1", "declaration", "throw", "", "none"),
     Def("f2", "declaration", "arg", "", "none")>>,
   <<Def("f1", "declaration", "thrownull", "", "none"),
     Def("f2", "declaration", "arg", "", "none")>>}

\* a text with the reversed-string idiom: "ab" and the chain
IdiomText == <<Q, "a", "b", Q>> \o Chain
SourceTexts == {<<>>, IdiomText}

\* the texts that go with a list of call statements: the longest lists come
\* without the reversed string literal
TextsWith(ss) == IF Len(ss) < MaxSites THEN SourceTexts ELSE {<<>>}

\* the source files: the definitions first, or (one layout) the calls first;
\* and the files Babel cannot parse
Sources ==
  UNION {{[text |-> x, parses |-> TRUE, stmts |-> ds \o ss] :
            x \in TextsWith(ss), ds \in DefLayouts} : ss \in SiteLists}
  \cup UNION {{[text |-> x, parses |-> TRUE,
                stmts |-> ss \o <<Def("f1", "declaration", "arg", "", "none")>>] :
                 x \in TextsWith(ss)} : ss \in SiteLists \ {<<>>}}
  \cup {[text |-> x, parses |-> FALSE, stmts |-> <<>>] : x \in SourceTexts}

\* config with the defaults of the command line; interceptPattern and
\* functionNamePattern are given by the names they match: the default
\* pattern, the letter f followed by digits, matches anywhere in a name
DefaultConfig ==
  [interceptPattern |-> {"f1", "f2", "default"},
   hasFunctionName |-> FALSE, functionNamePattern |-> {},
   minArgs |-> minArgs, maxArgs |-> maxArgs,
   decryptStringReverse |-> TRUE, decryptFunctionCalls |-> TRUE,
   disableReplace |-> FALSE, cleanupFunctions |-> "none"]

Configs ==
  {DefaultConfig,
   [DefaultConfig EXCEPT !.cleanupFunctions = "comment"],
   [DefaultConfig EXCEPT !.cleanupFunctions = "remove"],
   [DefaultConfig EXCEPT !.disableReplace = TRUE],
   [DefaultConfig EXCEPT !.decryptStringReverse = FALSE, !.decryptFunctionCalls = FALSE],
   [DefaultConfig EXCEPT !.hasFunctionName = TRUE, !.functionNamePattern = {"f1"}]}

----------------------------------------------------------------------------
(* One run of main *)

NullCode == [null |-> TRUE, text |-> <<>>, parses |-> FALSE, stmts |-> <<>>]
Code(c) == [null |-> FALSE, text |-> c.text, parses |-> c.parses, stmts |-> c.stmts]
NoFile == [written |-> FALSE, text |-> <<>>, stmts |-> <<>>]

\* the state main is in when processWithNewStrategy is called: the source
\* is read, nothing is computed yet
RunStart ==
  /\ pc = "step1"
  /\ processedCode = [text |-> <<>>, parses |-> FALSE, stmts |-> <<>>]
  /\ extractedFunctions = <<>>
  /\ actualCalls = <<>>
  /\ testCode = <<>>
  /\ ip = 0
  /\ vmEnv = {}
  /\ globalResults = {}
  /\ callExpressionMap = {}
  /\ vmStatus = "none"
  /\ timer = "none"
  /\ clock = 0
  /\ finalCode = NullCode
  /\ outFile = NoFile
  /\ consoleLog = "original"
  /\ exitCode = "running"

NormalizerIdle ==
  /\ nText = <<>>
  /\ nOnce = <<>>
  /\ nTwice = <<>>
  /\ nPasses = 0

\* a path that names no file, and a file with its text (texts are numbered)
Absent == [exists |-> FALSE, text |-> 0]
File(t) == [exists |-> TRUE, text |-> t]

\* what processWithNewStrategy gives main: null, a text, or an error
Null == [kind |-> "null", text |-> 0]
Threw == [kind |-> "throw", text |-> 0]
CodeText(t) == [kind |-> "code", text |-> t]

\* main is not run over and over
BackupIdle ==
  /\ bpc = "idle"
  /\ argv = [backup |-> TRUE, output |-> "none"]
  /\ files = [input |-> 0, bak |-> Absent, other |-> Absent]
  /\ sourceCode = 0
  /\ mainResult = Null
  /\ hist = [runs |-> 0, first |-> 0, stale |-> FALSE, fits |-> TRUE]

\* no dependency analysis on its own
DependenciesIdle ==
  /\ rpc = "done"
  /\ rCalls = {}
  /\ rRound = 0
  /\ rAdded = {}
  /\ tGraph = [keys |-> <<>>, deps |-> <<>>]
  /\ tResult = [o |-> "none", result |-> <<>>]

Init ==
  /\ src \in Sources
  /\ cfg \in Configs
  /\ RunStart
  /\ NormalizerIdle
  /\ DependenciesIdle
  /\ BackupIdle

\* Step 1: processedCode = preprocessCode(sourceCode)
Step1Preprocess ==
  /\ pc = "step1"
  /\ processedCode' = [src EXCEPT !.text = preprocessCode(src.text)]
  /\ pc' = "step2"
  /\ UNCHANGED <<src, cfg, extractedFunctions, actualCalls, testCode, ip, vmEnv,
                 globalResults, callExpressionMap, vmStatus, timer, clock,
                 finalCode, outFile, exitCode>>
  /\ UNCHANGED consoleLog
  /\ UNCHANGED nvars
  /\ UNCHANGED dvars
  /\ UNCHANGED bvars

\* Step 2: extractFunctionDefinitions; return null when nothing is extracted
Step2ExtractDefinitions ==
  /\ pc = "step2"
  /\ extractedFunctions' = extractFunctionDefinitions(processedCode)
  /\ pc' = IF extractedFunctions' = <<>> THEN "return" ELSE "step3"
  /\ UNCHANGED <<src, cfg, processedCode, actualCalls, testCode, ip, vmEnv,
                 globalResults, callExpressionMap, vmStatus, timer, clock,
                 finalCode, outFile, exitCode>>
  /\ UNCHANGED consoleLog
  /\ UNCHANGED nvars
  /\ UNCHANGED dvars
  /\ UNCHANGED bvars

\* Step 3: extractActualFunctionCalls; return null when there is no call
Step3ExtractCalls ==
  /\ pc = "step3"
  /\ actualCalls' = extractActualFunctionCalls(processedCode)
  /\ pc' = IF actualCalls' = <<>> THEN "return" ELSE "step4"
  /\ UNCHANGED <<src, cfg, processedCode, extractedFunctions, testCode, ip, vmEnv,
                 globalResults, callExpressionMap, vmStatus, timer, clock,
                 finalCode, outFile, exitCode>>
  /\ UNCHANGED consoleLog
  /\ UNCHANGED nvars
  /\ UNCHANGED dvars
  /\ UNCHANGED bvars

\* Step 4: generateFunctionTestCode(functionCodeMap, actualCalls, sourceCode)
Step4Generate ==
  /\ pc = "step4"
  /\ testCode' = generateFunctionTestCode(extractedFunctions, actualCalls, src)
  /\ pc' = "step5"
  /\ UNCHANGED <<src, cfg, processedCode, extractedFunctions, actualCalls, ip, vmEnv,
                 globalResults, callExpressionMap, vmStatus, timer, clock,
                 finalCode, outFile, exitCode>>
  /\ UNCHANGED consoleLog
  /\ UNCHANGED nvars
  /\ UNCHANGED dvars
  /\ UNCHANGED bvars

\* Step 5: the context is created, the timer is set, runInContext starts
Step5Start ==
  /\ pc = "step5"
  /\ timer' = "armed"
  /\ clock' = 0
  /\ globalResults' = {}
  /\ vmEnv' = Hoisted(processedCode, extractedFunctions)
  /\ ip' = 1
  /\ pc' = "vm"
  /\ UNCHANGED <<src, cfg, processedCode, extractedFunctions, actualCalls, testCode,
                 callExpressionMap, vmStatus, finalCode, outFile, exitCode>>
  /\ UNCHANGED consoleLog
  /\ UNCHANGED nvars
  /\ UNCHANGED dvars
  /\ UNCHANGED bvars

----------------------------------------------------------------------------
(* vm.runInContext(testCode, context): the generated program, one          *)
(* instruction at a time                                                   *)

Running == pc = "vm" /\ ip \in DOMAIN testCode

\* what the instruction at ip does when it is a call
Outcome ==
  LET ins == testCode[ip]
  IN  CASE ins.op = "immediate" -> EvaluateCall(src, vmEnv, src.stmts[ins.at])
        [] ins.op = "safeCall" ->
             CallHelper(processedCode, vmEnv, ins.funcName, ins.args, 0)
        [] OTHER -> Returns("undefined")

\* the vm is inside a call that never returns
Hung ==
  /\ Running
  /\ testCode[ip].op \in {"immediate", "safeCall"}
  /\ (testCode[ip].op = "safeCall" => testCode[ip].funcName \in vmEnv)
  /\ Outcome = Loops

VmUnchanged ==
  /\ UNCHANGED <<src, cfg, processedCode, extractedFunctions, actualCalls, testCode,
                 callExpressionMap, clock, outFile, exitCode>>
  /\ UNCHANGED nvars
  /\ UNCHANGED dvars
  /\ UNCHANGED bvars

\* console.log = () => {}
VmSilence ==
  /\ Running
  /\ testCode[ip].op = "silence"
  /\ ip' = ip + 1
  /\ UNCHANGED <<pc, vmEnv, globalResults, vmStatus, timer, finalCode>>
  /\ consoleLog' = "silent"
  /\ VmUnchanged

\* an immediately invoked function of the source runs to its end
VmImmediate ==
  /\ Running
  /\ testCode[ip].op = "immediate"
  /\ Outcome.o = "return"
  /\ ip' = ip + 1
  /\ UNCHANGED <<pc, vmEnv, globalResults, vmStatus, timer, finalCode>>
  /\ UNCHANGED consoleLog
  /\ VmUnchanged

\* an immediately invoked function throws: runInContext throws, the catch
\* block of Step 5 returns null. clearTimeout is not reached.
VmThrow ==
  /\ Running
  /\ testCode[ip].op = "immediate"
  /\ Outcome.o = "throw"
  /\ vmStatus' = "threw"
  /\ finalCode' = NullCode
  /\ pc' = "return"
  /\ UNCHANGED <<ip, vmEnv, globalResults, timer>>
  /\ UNCHANGED consoleLog
  /\ VmUnchanged

\* a helper definition of functionCodeMap
VmDefine ==
  /\ Running
  /\ testCode[ip].op = "define"
  /\ vmEnv' = vmEnv \cup {testCode[ip].funcName}
  /\ ip' = ip + 1
  /\ UNCHANGED <<pc, globalResults, vmStatus, timer, finalCode>>
  /\ UNCHANGED consoleLog
  /\ VmUnchanged

\* the catch block of safeCall reads e.message: with a thrown value that has
\* no properties that read throws, out of safeCall
SafeCallEscapes ==
  /\ Running
  /\ testCode[ip].op = "safeCall"
  /\ testCode[ip].funcName \in vmEnv
  /\ Outcome = ThrowsNull

\* if (typeof funcName === 'function') safeCall(funcName, args, callStr):
\* the result is stored, a throw is caught and counted
VmSafeCall ==
  /\ Running
  /\ testCode[ip].op = "safeCall"
  /\ ~Hung
  /\ ~SafeCallEscapes
  /\ globalResults' =
       IF testCode[ip].funcName \in vmEnv /\ Outcome.o = "return"
       THEN safeCallStore(globalResults, testCode[ip].key, Outcome.v)
       ELSE globalResults
  /\ ip' = ip + 1
  /\ UNCHANGED <<pc, vmEnv, vmStatus, timer, finalCode>>
  /\ UNCHANGED consoleLog
  /\ VmUnchanged

\* an error leaves safeCall: the rest of testActualCalls is skipped, the
\* try around testActualCalls() catches the error and the program ends
VmSafeCallThrows ==
  /\ SafeCallEscapes
  /\ ip' = Len(testCode) + 1
  /\ UNCHANGED <<pc, vmEnv, globalResults, vmStatus, timer, finalCode>>
  /\ UNCHANGED consoleLog
  /\ VmUnchanged

\* console.log = originalConsoleLog
VmRestore ==
  /\ Running
  /\ testCode[ip].op = "restore"
  /\ ip' = ip + 1
  /\ UNCHANGED <<pc, vmEnv, globalResults, vmStatus, timer, finalCode>>
  /\ consoleLog' = "original"
  /\ VmUnchanged

\* runInContext returns: clearTimeout(timeoutId); callExpressionMap = globalResults
VmFinish ==
  /\ pc = "vm"
  /\ ip = Len(testCode) + 1
  /\ timer' = "cleared"
  /\ callExpressionMap' = globalResults
  /\ vmStatus' = "ok"
  /\ pc' = "step6"
  /\ UNCHANGED <<src, cfg, processedCode, extractedFunctions, actualCalls, testCode,
                 ip, vmEnv, globalResults, clock, finalCode, outFile, exitCode>>
  /\ UNCHANGED consoleLog
  /\ UNCHANGED nvars
  /\ UNCHANGED dvars
  /\ UNCHANGED bvars

----------------------------------------------------------------------------
(* Steps 6 and 7, main, the event loop *)

\* Step 6: finalCode = applyCallExpressionReplacements(processedCode, callExpressionMap)
Step6Apply ==
  /\ pc = "step6"
  /\ finalCode' = Code(applyCallExpressionReplacements(processedCode, callExpressionMap))
  /\ pc' = IF cfg.cleanupFunctions # "none" THEN "step7" ELSE "return"
  /\ UNCHANGED <<src, cfg, processedCode, extractedFunctions, actualCalls, testCode,
                 ip, vmEnv, globalResults, callExpressionMap, vmStatus, timer,
                 clock, outFile, exitCode>>
  /\ UNCHANGED consoleLog
  /\ UNCHANGED nvars
  /\ UNCHANGED dvars
  /\ UNCHANGED bvars

\* Step 7: analyzeFunctionsForCleanup, and cleanupDecryptedFunctions when
\* something can be cleaned
Step7Cleanup ==
  /\ pc = "step7"
  /\ LET cleanupData == analyzeFunctionsForCleanup(finalCode, callExpressionMap, actualCalls)
     IN  finalCode' =
           IF cleanupData.functions # {} \/ cleanupData.immediateFunctions # {}
           THEN cleanupDecryptedFunctions(finalCode, cleanupData, cfg.cleanupFunctions)
           ELSE finalCode
  /\ pc' = "return"
  /\ UNCHANGED <<src, cfg, processedCode, extractedFunctions, actualCalls, testCode,
                 ip, vmEnv, globalResults, callExpressionMap, vmStatus, timer,
                 clock, outFile, exitCode>>
  /\ UNCHANGED consoleLog
  /\ UNCHANGED nvars
  /\ UNCHANGED dvars
  /\ UNCHANGED bvars

\* finalCode === sourceCode
SameAsSource == finalCode.text = src.text /\ finalCode.stmts = src.stmts

MainUnchanged ==
  /\ UNCHANGED <<src, cfg, processedCode, extractedFunctions, actualCalls, testCode,
                 ip, vmEnv, globalResults, callExpressionMap, vmStatus, timer,
                 clock, finalCode, exitCode>>
  /\ UNCHANGED consoleLog
  /\ UNCHANGED nvars
  /\ UNCHANGED dvars
  /\ UNCHANGED bvars

\* main: finalCode is null, or equal to the source: nothing is written
MainNoOutput ==
  /\ pc = "return"
  /\ finalCode.null \/ SameAsSource
  /\ pc' = "eventloop"
  /\ UNCHANGED outFile
  /\ MainUnchanged

\* main: fs.writeFileSync(outputPath, finalCode)
MainWriteOutput ==
  /\ pc = "return"
  /\ ~finalCode.null /\ ~SameAsSource
  /\ outFile' = [written |-> TRUE, text |-> finalCode.text, stmts |-> finalCode.stmts]
  /\ pc' = "eventloop"
  /\ MainUnchanged

TimeUnchanged ==
  /\ UNCHANGED <<src, cfg, processedCode, extractedFunctions, actualCalls, testCode,
                 ip, vmEnv, globalResults, callExpressionMap, vmStatus, finalCode,
                 outFile>>
  /\ UNCHANGED consoleLog
  /\ UNCHANGED nvars
  /\ UNCHANGED dvars
  /\ UNCHANGED bvars

\* time passes while the vm is inside a call that never returns, or while
\* the process has nothing left but the timer
Tick ==
  /\ Hung \/ (pc = "eventloop" /\ timer = "armed" /\ clock < maxExecutionTime)
  /\ clock + TickMs <= MaxClock
  /\ clock' = clock + TickMs
  /\ UNCHANGED <<pc, timer, exitCode>>
  /\ TimeUnchanged

\* the callback of setTimeout runs when the event loop gets to it, which is
\* after main has returned: it throws, nothing catches it
TimerFire ==
  /\ pc = "eventloop"
  /\ timer = "armed"
  /\ clock >= maxExecutionTime
  /\ timer' = "fired"
  /\ exitCode' = "1"
  /\ pc' = "exited"
  /\ UNCHANGED clock
  /\ TimeUnchanged

\* nothing is left to run: the process ends with code 0
Exit ==
  /\ pc = "eventloop"
  /\ timer # "armed"
  /\ exitCode' = "0"
  /\ pc' = "exited"
  /\ UNCHANGED <<timer, clock>>
  /\ TimeUnchanged

Next ==
  \/ Step1Preprocess
  \/ Step2ExtractDefinitions
  \/ Step3ExtractCalls
  \/ Step4Generate
  \/ Step5Start
  \/ VmSilence
  \/ VmImmediate
  \/ VmThrow
  \/ VmDefine
  \/ VmSafeCall
  \/ VmSafeCallThrows
  \/ VmRestore
  \/ VmFinish
  \/ Step6Apply
  \/ Step7Cleanup
  \/ MainNoOutput
  \/ MainWriteOutput
  \/ Tick
  \/ TimerFire
  \/ Exit

Spec == Init /\ [][Next]_vars

----------------------------------------------------------------------------
(* The normalizer on its own: texts made of quotes, letters and the chain  *)

TextTokens == {<<Q>>, <<"a">>, <<"b">>, Chain}
Texts == {Flatten(ts) : ts \in SeqsUpTo(TextTokens, MaxToks)}

\* no run of main
PipelineIdle ==
  /\ src = [text |-> <<>>, parses |-> TRUE, stmts |-> <<>>]
  /\ cfg = DefaultConfig
  /\ RunStart

NInit ==
  /\ nText \in Texts
  /\ nOnce = <<>>
  /\ nTwice = <<>>
  /\ nPasses = 0
  /\ PipelineIdle
  /\ DependenciesIdle
  /\ BackupIdle

\* the normalizer applied to the source text
NormalizeOnce ==
  /\ nPasses = 0
  /\ nOnce' = processStringReverse(nText)
  /\ nPasses' = 1
  /\ UNCHANGED <<nText, nTwice>>
  /\ UNCHANGED pvars
  /\ UNCHANGED dvars
  /\ UNCHANGED bvars

\* the normalizer applied to its own output
NormalizeAgain ==
  /\ nPasses = 1
  /\ nTwice' = processStringReverse(nOnce)
  /\ nPasses' = 2
  /\ UNCHANGED <<nText, nOnce>>
  /\ UNCHANGED pvars
  /\ UNCHANGED dvars
  /\ UNCHANGED bvars

NNext == NormalizeOnce \/ NormalizeAgain

SpecNormalize == NInit /\ [][NNext]_vars

----------------------------------------------------------------------------
(* collectInitializationFunctionCalls alone, one round of its while loop   *)
(* at a time                                                               *)

\* rounds of the while loop the model follows
MaxRounds == 5

\* the sources the analysis is run on
ResolveSources == {s \in Sources : s.parses /\ s.text = <<>>}

\* the names a round adds with the test !initializationCalls.has(...) left out
RoundAddsSeen(code, calls) == NestedDependencies(code, calls)

\* the names a round adds: called in a definition of currentCalls and not
\* yet in initializationCalls
RoundAdds(code, calls) == NestedDependencies(code, calls) \ calls

RInit ==
  /\ src \in ResolveSources
  /\ cfg = DefaultConfig
  /\ RunStart
  /\ NormalizerIdle
  /\ BackupIdle
  /\ rpc = "seeds"
  /\ rCalls = {}
  /\ rRound = 0
  /\ rAdded = {}
  /\ tGraph = [keys |-> <<>>, deps |-> <<>>]
  /\ tResult = [o |-> "none", result |-> <<>>]

\* the first traversal
ResolveSeeds ==
  /\ rpc = "seeds"
  /\ rCalls' = InitializationSeeds(src)
  /\ rpc' = "loop"
  /\ UNCHANGED <<rRound, rAdded, tGraph, tResult>>
  /\ UNCHANGED nvars
  /\ UNCHANGED pvars
  /\ UNCHANGED bvars

\* one round of while (hasNewDependencies)
ResolveRound ==
  /\ rpc = "loop"
  /\ rRound < MaxRounds
  /\ rAdded' = RoundAdds(src, rCalls)
  /\ rCalls' = rCalls \cup rAdded'
  /\ rRound' = rRound + 1
  /\ rpc' = IF rAdded' # {} THEN "loop" ELSE "done"
  /\ UNCHANGED <<tGraph, tResult>>
  /\ UNCHANGED nvars
  /\ UNCHANGED pvars
  /\ UNCHANGED bvars

RNext == ResolveSeeds \/ ResolveRound

\* the loop is synchronous code: a round that can run does run
SpecResolve == RInit /\ [][RNext]_vars /\ WF_vars(RNext)

----------------------------------------------------------------------------
(* topologicalSort(graph) alone. A graph is a Map from a function name to  *)
(* the Set of the names it depends on: keys in insertion order, and for    *)
(* the k-th key the sequence deps[k] of its Set, in insertion order        *)

GraphNodes == {"f1", "f2", "f3"}

\* the sequences without repetition over S
DistinctSeqs(S) ==
  {q \in UNION {[1..k -> S] : k \in 0..Cardinality(S)} :
     \A i, j \in DOMAIN q : i # j => q[i] # q[j]}

Graphs(S) ==
  UNION {{[keys |-> ks, deps |-> ds] : ds \in [DOMAIN ks -> DistinctSeqs(S)]} :
           ks \in DistinctSeqs(S)}

\* graph.get(node)
GraphGet(graph, node) ==
  graph.deps[CHOOSE k \in DOMAIN graph.keys : graph.keys[k] = node]

\* visit(node), on the sets visited and visiting and the array result;
\* threw: the Error of a circular dependency has been thrown
RECURSIVE visit(_, _, _)
RECURSIVE VisitDependencies(_, _, _)
visit(graph, node, st) ==
  IF st.threw THEN st
  ELSE IF node \in st.visiting THEN [st EXCEPT !.threw = TRUE]
  ELSE IF node \in st.visited THEN st
  ELSE LET entered == [st EXCEPT !.visiting = @ \cup {node}]
           after == VisitDependencies(graph, GraphGet(graph, node), entered)
       IN  IF after.threw THEN after
           ELSE [after EXCEPT !.visiting = @ \ {node},
                              !.visited = @ \cup {node},
                              !.result = Append(@, node)]

\* for (const dep of dependencies) if (graph.has(dep)) visit(dep)
VisitDependencies(graph, dependencies, st) ==
  IF dependencies = <<>> \/ st.threw THEN st
  ELSE VisitDependencies(graph, Tail(dependencies),
         IF Head(dependencies) \in Range(graph.keys)
         THEN visit(graph, Head(dependencies), st)
         ELSE st)

\* for (const node of graph.keys()) visit(node)
RECURSIVE VisitKeys(_, _, _)
VisitKeys(graph, keys, st) ==
  IF keys = <<>> \/ st.threw THEN st
  ELSE VisitKeys(graph, Tail(keys), visit(graph, Head(keys), st))

\* topologicalSort with its result in the opposite order
topologicalSortReversed(graph) ==
  LET st == VisitKeys(graph, graph.keys,
                      [visited |-> {}, visiting |-> {}, result |-> <<>>, threw |-> FALSE])
  IN  IF st.threw THEN [o |-> "throw", result |-> <<>>]
      ELSE [o |-> "return", result |-> Reverse(st.result)]

topologicalSort(graph) ==
  LET st == VisitKeys(graph, graph.keys,
                      [visited |-> {}, visiting |-> {}, result |-> <<>>, threw |-> FALSE])
  IN  IF st.threw THEN [o |-> "throw", result |-> <<>>]
      ELSE [o |-> "return", result |-> st.result]

TInit ==
  /\ tGraph \in Graphs(GraphNodes)
  /\ tResult = [o |-> "none", result |-> <<>>]
  /\ rpc = "done"
  /\ rCalls = {}
  /\ rRound = 0
  /\ rAdded = {}
  /\ PipelineIdle
  /\ NormalizerIdle
  /\ BackupIdle

\* a call of topologicalSort
Sort ==
  /\ tResult.o = "none"
  /\ tResult' = topologicalSort(tGraph)
  /\ UNCHANGED <<rpc, rCalls, rRound, rAdded, tGraph>>
  /\ UNCHANGED nvars
  /\ UNCHANGED pvars
  /\ UNCHANGED bvars

TNext == Sort

SpecSort == TInit /\ [][TNext]_vars

----------------------------------------------------------------------------
(* main, run again and again on the same input file. The texts of the      *)
(* files are numbered: what processWithNewStrategy makes of text t is      *)
(* null, an error, t itself or the new text t + 1.                         *)

\* runs of main the model follows
MaxRuns == 3

\* argv.file
filePath == "a.js"

\* --output: not given, the spelling of --file, another spelling of the
\* same file, another file
OutputArgs == {"none", "same", "alias", "other"}

\* const outputPath = argv.output || filePath
outputPath ==
  CASE argv.output = "none" -> filePath
    [] argv.output = "same" -> "a.js"
    [] argv.output = "alias" -> "./a.js"
    [] OTHER -> "b.js"

\* the file of the disk a path names
FileAt(path) == IF path \in {"a.js", "./a.js"} THEN "input" ELSE "other"

\* a text no run produces
StaleText == MaxRuns + 1

BInit ==
  /\ bpc = "idle"
  /\ argv = [backup |-> TRUE, output |-> "none"]
  /\ files \in {[input |-> File(0), bak |-> b, other |-> Absent] :
                  b \in {Absent, File(StaleText)}}
  /\ sourceCode = 0
  /\ mainResult = Null
  /\ hist = [runs |-> 0, first |-> 0, stale |-> files.bak.exists, fits |-> TRUE]
  /\ PipelineIdle
  /\ NormalizerIdle
  /\ DependenciesIdle

BUnchanged ==
  /\ UNCHANGED nvars
  /\ UNCHANGED dvars
  /\ UNCHANGED pvars

\* main is started: fs.existsSync(filePath) holds
MainStart ==
  /\ bpc = "idle"
  /\ hist.runs < MaxRuns
  /\ \E b \in BOOLEAN, o \in OutputArgs :
       /\ argv' = [backup |-> b, output |-> o]
       /\ hist' = [hist EXCEPT
                     !.runs = @ + 1,
                     !.fits = @ /\ b /\ (o # "other")]
  /\ bpc' = "read"
  /\ UNCHANGED <<files, sourceCode, mainResult>>
  /\ BUnchanged

\* let sourceCode = fs.readFileSync(filePath, 'utf-8')
MainRead ==
  /\ bpc = "read"
  /\ sourceCode' = files.input.text
  /\ bpc' = "backup"
  /\ UNCHANGED <<argv, files, mainResult, hist>>
  /\ BUnchanged

\* if (argv.backup && filePath === outputPath)
\*   if (!fs.existsSync(backupPath)) fs.writeFileSync(backupPath, sourceCode)
MainBackup ==
  /\ bpc = "backup"
  /\ files' = IF argv.backup /\ filePath = outputPath /\ ~files.bak.exists
              THEN [files EXCEPT !.bak = File(sourceCode)]
              ELSE files
  /\ bpc' = "process"
  /\ UNCHANGED <<argv, sourceCode, mainResult, hist>>
  /\ BUnchanged

\* const finalCode = processWithNewStrategy(sourceCode, outputPath): null
\* makes main return, an error makes it exit
MainProcess ==
  /\ bpc = "process"
  /\ \E r \in {Null, Threw, CodeText(sourceCode), CodeText(sourceCode + 1)} :
       /\ mainResult' = r
       /\ bpc' = IF r.kind = "code" THEN "write" ELSE "idle"
  /\ UNCHANGED <<argv, files, sourceCode, hist>>
  /\ BUnchanged

\* if (finalCode === sourceCode) nothing, else
\* fs.writeFileSync(outputPath, finalCode)
MainWrite ==
  /\ bpc = "write"
  /\ files' = IF mainResult.text = sourceCode THEN files
              ELSE [files EXCEPT ![FileAt(outputPath)] = File(mainResult.text)]
  /\ bpc' = "idle"
  /\ UNCHANGED <<argv, sourceCode, mainResult, hist>>
  /\ BUnchanged

BNext == MainStart \/ MainRead \/ MainBackup \/ MainProcess \/ MainWrite

SpecBackup == BInit /\ [][BNext]_vars

----------------------------------------------------------------------------
(* C8: Literal idempotence: for every source text, the normalizer applied  *)
(* to its own output gives that output again.                              *)
C8_LiteralIdempotence == nPasses = 2 => nTwice = nOnce

----------------------------------------------------------------------------
(* The original program, for the properties that compare the output with it *)

\* the helpers bound when statement i of the source runs: the function
\* declarations (hoisted) and the function expressions assigned before i
OriginalEnv(i) ==
  {src.stmts[j].name : j \in {j \in DOMAIN src.stmts :
      /\ src.stmts[j].t = "def"
      /\ (src.stmts[j].kind = "declaration" \/ j < i)}}

\* what the call of statement i yields in the source
OriginalOutcome(i) == EvaluateCall(src, OriginalEnv(i), src.stmts[i])

\* every extracted helper is a pure function of its arguments
PureHelpers ==
  \A n \in Range(extractedFunctions) : DefinitionOf(src, n).ret \in {"arg", "obj", "call"}

\* the call sites of the processed source, printed
PrintedCallSites ==
  {PrintCall(c) : c \in UNION {Range(CallNodesAt(processedCode, i)) :
                                 i \in DOMAIN processedCode.stmts}}

\* string, number, boolean, null or absent
RepresentableKind(v) ==
  TypeOf(v) \in {"string", "number", "boolean", "undefined"} \/ v = "null"

\* the text at the output path when the process has ended: what main wrote,
\* or the source still (the run works in place)
EmittedText == IF outFile.written THEN outFile.text ELSE src.text

----------------------------------------------------------------------------
(* C1: Rewrite soundness: when every helper shipped to the evaluator is a  *)
(* pure function of its arguments, every call replaced in the output is    *)
(* replaced by a literal equal to the value the call yields in the         *)
(* original program.                                                       *)
C1_RewriteSoundness ==
  (outFile.written /\ PureHelpers) =>
    \A i \in DOMAIN outFile.stmts :
      outFile.stmts[i].st = "lit" => OriginalOutcome(i) = Returns(outFile.stmts[i].lit)

(* C2: Initializer safety: no call that has an immediately invoked         *)
(* function, a do-while loop or a try block among its ancestors is         *)
(* replaced by a literal in the emitted source.                            *)
C2_InitializerSafety ==
  outFile.written =>
    \A i \in DOMAIN outFile.stmts :
      outFile.stmts[i].wrap \in {"iife", "dowhile", "try"} => outFile.stmts[i].st # "lit"

(* C3: Cleanup safety: a helper definition that cleanup takes out has no   *)
(* call left in the post-rewrite source: none with a non-literal argument, *)
(* none in the body of a helper that stays.                                *)
C3_CleanupSafety ==
  outFile.written =>
    \A i \in DOMAIN outFile.stmts :
      (outFile.stmts[i].t = "def" /\ outFile.stmts[i].st \in {"removed", "commented"}) =>
        \A j \in DOMAIN outFile.stmts :
          \A c \in Range(CallNodesAt(outFile, j)) :
            ~(c.ctype = "Identifier" /\ c.name = outFile.stmts[i].name)

(* C4: Timeout: the evaluation in the vm does not go on once the 30 s     *)
(* timeout has elapsed, also when a helper never returns.                  *)
C4_Timeout == pc = "vm" => clock <= maxExecutionTime

(* C5: When the evaluator throws while it runs the assembled program, the  *)
(* run rewrites nothing, the process ends with exit code 0 and no error is *)
(* raised later.                                                           *)
C5_EvaluatorThrow ==
  (vmStatus = "threw" /\ pc = "exited") =>
    (exitCode = "0" /\ ~outFile.written /\ timer # "fired")

(* C6: On every path where no call is rewritten (no helper definition, no  *)
(* constant call, evaluator failure) the emitted output is the             *)
(* literal-normalized input.                                               *)
C6_NoRewriteOutput ==
  (pc = "exited" /\ src.parses /\ finalCode.null) =>
    EmittedText = processStringReverse(src.text)

(* C7: When the source cannot be parsed, the run ends in a fatal error:    *)
(* a non-zero exit code, and no output written.                            *)
C7_ParseFailureFatal ==
  (pc = "exited" /\ ~src.parses) => (exitCode # "0" /\ ~outFile.written)

(* C9: Result key validity: every key of R is the printed form of a call   *)
(* site of the processed source, whatever the place of the call (plain,    *)
(* binding initializer, assignment, object field, array element).          *)
C9_ResultKeyValidity ==
  \A e \in globalResults : e.key \in PrintedCallSites

----------------------------------------------------------------------------
(* C11: Per-call failure containment: when a driver call throws in the vm, *)
(* its key is absent from R, every other call that returns normally has    *)
(* its entry in R, and the run of the vm completes.                        *)
C11_FailureContainment ==
  (pc = "vm" /\ ip = Len(testCode) + 1) =>
    \A k \in DOMAIN actualCalls :
      LET call == actualCalls[k]
          r == CallHelper(processedCode, vmEnv, call.funcName, JSONStringify(call.args), 0)
      IN  /\ r.o = "throw" => ~MapHas(globalResults, call.callExpression)
          /\ r.o = "return" => MapHas(globalResults, call.callExpression)

----------------------------------------------------------------------------
(* C12: a call whose argument count is outside the inclusive window        *)
(* minArgs..maxArgs is never replaced by a literal, whatever R holds.      *)
C12_ArgumentWindow ==
  ~finalCode.null =>
    \A i \in DOMAIN finalCode.stmts :
      (/\ src.stmts[i].t = "call"
       /\ Len(src.stmts[i].args) \notin cfg.minArgs..cfg.maxArgs)
      => finalCode.stmts[i].st # "lit"

----------------------------------------------------------------------------
(* C13: a call whose callee is a member access with a property name in     *)
(* reservedKeywords is never extracted as a call site, never passed to the *)
(* driver in the vm and never rewritten, also when the property name       *)
(* matches interceptPattern.                                               *)
C13_ReservedWordGuard ==
  \A i \in DOMAIN src.stmts :
    LET s == src.stmts[i]
    IN  (s.t = "call" /\ s.ctype = "MemberExpression" /\ s.name \in reservedKeywords)
        => /\ \A k \in DOMAIN actualCalls : actualCalls[k].path # i
           /\ \A k \in DOMAIN testCode :
                testCode[k].op = "safeCall"
                => ~(/\ testCode[k].funcName = s.name
                     /\ testCode[k].key \in {PrintCall(s), ObjectObject})
           /\ ~finalCode.null => finalCode.stmts[i] = s
           /\ outFile.written => outFile.stmts[i] = s

\* a written output where another call was replaced and the call of a
\* reserved property name that matches interceptPattern was gone over
C13_Witness ==
  /\ outFile.written
  /\ \E i \in DOMAIN src.stmts :
       /\ src.stmts[i].t = "call"
       /\ src.stmts[i].ctype = "MemberExpression"
       /\ src.stmts[i].name \in reservedKeywords \cap cfg.interceptPattern
       /\ Len(src.stmts[i].args) \in cfg.minArgs..cfg.maxArgs
       /\ \A k \in DOMAIN src.stmts[i].args :
            ConstantArgument(src.stmts[i].args[k]) # "undefined"
  /\ \E j \in DOMAIN outFile.stmts : outFile.stmts[j].st = "lit"

----------------------------------------------------------------------------
(* C14: a call with at least one argument that is neither a literal nor    *)
(* the negation of a numeric literal is never among the extracted calls,   *)
(* is never passed to the driver in the vm, and is unchanged in the        *)
(* output.                                                                 *)
C14_NonLiteralArgument ==
  \A i \in DOMAIN src.stmts :
    LET s == src.stmts[i]
    IN  (/\ s.t = "call"
         /\ \E a \in DOMAIN s.args :
              /\ s.args[a].type \notin {"NumericLiteral", "StringLiteral", "BooleanLiteral",
                                        "NullLiteral", "UnaryExpression"}
              /\ ~(s.args[a].type = "Identifier" /\ s.args[a].value = "undefined"))
        => /\ \A k \in DOMAIN actualCalls : actualCalls[k].path # i
           /\ \A k \in DOMAIN testCode :
                testCode[k].op = "safeCall" => testCode[k].key # PrintCall(s)
           /\ ~finalCode.null => finalCode.stmts[i] = s
           /\ outFile.written => outFile.stmts[i] = s

\* a written output where a call of a defined helper with the identifier k
\* among its arguments was gone over and a call with literals was replaced
C14_Witness ==
  /\ outFile.written
  /\ \E i \in DOMAIN src.stmts :
       /\ src.stmts[i].t = "call"
       /\ src.stmts[i].ctype = "Identifier"
       /\ src.stmts[i].name \in vmEnv
       /\ src.stmts[i].wrap = "none"
       /\ \E a \in DOMAIN src.stmts[i].args : src.stmts[i].args[a] = Ident("k")
       /\ \E j \in DOMAIN outFile.stmts :
            /\ outFile.stmts[j].st = "lit"
            /\ src.stmts[j].name = src.stmts[i].name

----------------------------------------------------------------------------
(* C15: a call outside any initializer context whose callee is a helper    *)
(* and whose arguments are all literals, one of them the identifier        *)
(* undefined, is among the extracted calls, with undefined as the value of *)
(* that argument.                                                          *)
C15_UndefinedArgumentAccepted ==
  pc \notin {"step1", "step2", "step3"} =>
    \A i \in DOMAIN src.stmts :
      LET s == src.stmts[i]
      IN  (/\ s.t = "call"
           /\ s.ctype = "Identifier"
           /\ s.wrap = "none"
           /\ s.name \in Range(extractedFunctions)
           /\ \E a \in DOMAIN s.args : s.args[a] = Ident("undefined")
           /\ \A a \in DOMAIN s.args :
                \/ s.args[a] = Ident("undefined")
                \/ s.args[a].type \in {"NumericLiteral", "StringLiteral", "BooleanLiteral",
                                       "NullLiteral", "UnaryExpression"})
          => \E k \in DOMAIN actualCalls :
               /\ actualCalls[k].path = i
               /\ \A a \in DOMAIN s.args :
                    s.args[a] = Ident("undefined") => actualCalls[k].args[a] = "undefined"

----------------------------------------------------------------------------
(* C16: when decryptStringReverse is false the normalizer of reversed      *)
(* string literals is not applied: the text that is parsed and that every  *)
(* later step works on is the input.                                       *)
C16_StringReverseOff ==
  (~cfg.decryptStringReverse /\ pc # "step1") =>
    /\ processedCode.text = src.text
    /\ ~finalCode.null => finalCode.text = src.text
    /\ outFile.written => outFile.text = src.text

----------------------------------------------------------------------------
(* C17: when decryptFunctionCalls is false no call is extracted, the vm is *)
(* not run and no call is rewritten.                                       *)
C17_FunctionCallsOff ==
  ~cfg.decryptFunctionCalls =>
    /\ actualCalls = <<>>
    /\ pc # "vm" /\ vmStatus = "none"
    /\ ~finalCode.null => \A i \in DOMAIN finalCode.stmts : finalCode.stmts[i].st # "lit"
    /\ outFile.written => \A i \in DOMAIN outFile.stmts : outFile.stmts[i].st # "lit"

----------------------------------------------------------------------------
(* C18: when disableReplace is true the evaluation in the vm is still      *)
(* performed, and no call of the source is replaced by a literal in the    *)
(* output.                                                                 *)
C18_DisableReplace ==
  cfg.disableReplace =>
    /\ pc = "step6" => (vmStatus = "ok" /\ ip = Len(testCode) + 1)
    /\ ~finalCode.null => \A i \in DOMAIN finalCode.stmts : finalCode.stmts[i].st # "lit"
    /\ outFile.written => \A i \in DOMAIN outFile.stmts : outFile.stmts[i].st # "lit"

\* a run with disableReplace whose vm stored a number for a call that is
\* still in place after Step 6
C18_Witness ==
  /\ cfg.disableReplace
  /\ pc = "return"
  /\ vmStatus = "ok"
  /\ ~finalCode.null
  /\ \E i \in DOMAIN finalCode.stmts :
       /\ src.stmts[i].t = "call"
       /\ src.stmts[i].ctype = "Identifier"
       /\ MapHas(callExpressionMap, PrintCall(src.stmts[i]))
       /\ MapGet(callExpressionMap, PrintCall(src.stmts[i])) \in Numbers
       /\ finalCode.stmts[i] = src.stmts[i]

----------------------------------------------------------------------------
(* The helpers, the seeds and the closure of the seeds under the calls in  *)
(* the bodies of the helpers                                               *)

\* the names that interceptPattern matches and that the source defines
DefinedHelpers(code) ==
  {code.stmts[i].name :
     i \in {i \in DOMAIN code.stmts :
              code.stmts[i].t = "def" /\ code.stmts[i].name \in cfg.interceptPattern}}

\* the defined helpers that the body of a definition of a calls
CalledIn(code, a) ==
  {code.stmts[i].dep :
     i \in {i \in DOMAIN code.stmts :
              /\ code.stmts[i].t = "def"
              /\ code.stmts[i].name = a
              /\ code.stmts[i].ret = "call"}} \cap DefinedHelpers(code)

\* the defined helpers called in an initializer context
InitializerCallees(code) ==
  {extractFunctionName(code.stmts[i]) :
     i \in {i \in DOMAIN code.stmts :
              code.stmts[i].t = "call" /\ isInitializationFunction(code.stmts[i])}}
    \cap DefinedHelpers(code)

\* the defined callees of the extracted calls
PureCallees(code) ==
  {c.funcName : c \in UNION {Range(ActualCallsAt(code, i)) : i \in DOMAIN code.stmts}}
    \cap DefinedHelpers(code)

SeedNames(code) == InitializerCallees(code) \cup PureCallees(code)

RECURSIVE SeedClosure(_, _)
SeedClosure(code, names) ==
  LET more == UNION {CalledIn(code, a) : a \in names} \ names
  IN  IF more = {} THEN names ELSE SeedClosure(code, names \cup more)

\* the names of the definitions in the generated program
DefinedInTestCode ==
  {testCode[k].funcName : k \in {k \in DOMAIN testCode : testCode[k].op = "define"}}

(* C19: closure completeness: the definitions shipped to the vm contain    *)
(* every defined helper called in an initializer context, the callee of    *)
(* every extracted call, and, for each shipped helper a, every defined     *)
(* helper that the body of a calls.                                        *)
C19_ClosureCompleteness ==
  (pc \notin {"step1", "step2"} /\ processedCode.parses) =>
    LET shipped == Range(extractedFunctions)
    IN  /\ InitializerCallees(processedCode) \subseteq shipped
        /\ PureCallees(processedCode) \subseteq shipped
        /\ \A a \in shipped : CalledIn(processedCode, a) \subseteq shipped
        /\ testCode # <<>> => shipped \subseteq DefinedInTestCode

\* a generated program that defines a helper which no seed names and which
\* the body of the callee of an extracted call calls
C19_Witness ==
  /\ pc = "step5"
  /\ \E b \in SeedClosure(processedCode, SeedNames(processedCode)) :
       /\ b \notin SeedNames(processedCode)
       /\ b \in DefinedInTestCode
  /\ PureCallees(processedCode) # {}

(* C20: the definitions shipped to the vm are exactly the closure of the   *)
(* seeds: a defined helper matching interceptPattern that no seed reaches  *)
(* is not shipped.                                                         *)
C20_ExactlyTheClosure ==
  (pc \notin {"step1", "step2"} /\ processedCode.parses) =>
    Range(extractedFunctions) = SeedClosure(processedCode, SeedNames(processedCode))

(* C20, amended: for a source that parses, the definitions shipped to the  *)
(* vm are exactly the defined helpers matching interceptPattern, reached   *)
(* by a seed or not.                                                       *)
C20_AllMatchingDefinitions ==
  (pc \notin {"step1", "step2"} /\ processedCode.parses) =>
    /\ Range(extractedFunctions) = DefinedHelpers(processedCode)
    /\ testCode # <<>> => DefinedInTestCode = DefinedHelpers(processedCode)

\* a generated program that defines a helper which no seed reaches, next
\* to one that a seed names
C20_Witness ==
  /\ pc = "step5"
  /\ SeedNames(processedCode) # {}
  /\ \E n \in DefinedHelpers(processedCode) :
       /\ n \notin SeedClosure(processedCode, SeedNames(processedCode))
       /\ n \in DefinedInTestCode

----------------------------------------------------------------------------
(* C21: the fixed-point iteration of the dependency analysis terminates    *)
(* for every helper call graph, with cycles and self-edges; every round    *)
(* after the first adds at least one name not seen before, and a self-edge *)
(* adds nothing.                                                           *)
C21_EveryLaterRoundAdds ==
  rRound > 1 => rAdded # {}

(* C21, amended: the iteration terminates for every helper call graph,     *)
(* with cycles and self-edges, after at most one round more than there are *)
(* helper names; every round but the last adds at least one name not seen  *)
(* before, the last round adds nothing, and a self-edge adds nothing.      *)
C21_ResolverTerminates ==
  /\ <>(rpc = "done")
  /\ [](rCalls \subseteq cfg.interceptPattern)
  /\ [](rRound <= Cardinality(cfg.interceptPattern) + 1)
  /\ [](rpc = "loop" /\ rRound > 0 => rAdded # {})
  /\ [](rpc = "done" => rAdded = {})
  /\ [][rAdded' \cap rCalls = {}]_vars
  /\ [](rpc = "done" =>
          rCalls = collectInitializationFunctionCalls(src))

\* the loop has ended on a cycle: two helpers that call each other, both
\* found, after a second round that added nothing
C21_Witness ==
  /\ rpc = "done"
  /\ rRound = 2
  /\ rAdded = {}
  /\ \E i, j \in DOMAIN src.stmts :
       /\ src.stmts[i].t = "def" /\ src.stmts[j].t = "def"
       /\ src.stmts[i].name # src.stmts[j].name
       /\ src.stmts[i].ret = "call" /\ src.stmts[i].dep = src.stmts[j].name
       /\ src.stmts[j].ret = "call" /\ src.stmts[j].dep = src.stmts[i].name
       /\ {src.stmts[i].name, src.stmts[j].name} \subseteq rCalls

----------------------------------------------------------------------------
(* The dependency graph among the nodes of tGraph                          *)

\* the nodes that a node depends on
EdgesOf(node) == Range(GraphGet(tGraph, node)) \cap Range(tGraph.keys)

\* the nodes reached from the nodes of S along one edge or more
RECURSIVE ReachedFrom(_, _)
ReachedFrom(S, seen) ==
  LET next == UNION {EdgesOf(n) : n \in S} \ seen
  IN  IF next = {} THEN seen ELSE ReachedFrom(next, seen \cup next)

\* a cycle or a self-edge
HasCycle == \E n \in Range(tGraph.keys) : n \in ReachedFrom({n}, {})

\* every node exactly once
IsLinearization(result) ==
  /\ Len(result) = Len(tGraph.keys)
  /\ Range(result) = Range(tGraph.keys)

\* every node after the nodes it depends on
DependenciesFirst(result) ==
  \A i, j \in DOMAIN result :
    result[j] \in EdgesOf(result[i]) => j < i

----------------------------------------------------------------------------
----------------------------------------------------------------------------
(* C24: with cleanupFunctions = comment, each helper definition or         *)
(* immediately invoked function marked dead is replaced in the output by a *)
(* block comment that holds its printed form, so its text is still in the  *)
(* output, inside a comment.                                               *)
C24_CommentKeepsText ==
  (outFile.written /\ cfg.cleanupFunctions = "comment") =>
    \A i \in DOMAIN outFile.stmts :
      outFile.stmts[i].st = "commented" => PrintedAs(outFile.stmts[i]) = "comment"

----------------------------------------------------------------------------
(* C25: a helper that is exported at the top level of the source is never  *)
(* commented out or removed by cleanup, whatever form the export takes and *)
(* however many of its calls were rewritten.                               *)
C25_ExportedRetained ==
  outFile.written =>
    \A i \in DOMAIN outFile.stmts :
      (outFile.stmts[i].t = "def" /\ outFile.stmts[i].exp # "none")
      => outFile.stmts[i].st \notin {"removed", "commented"}

----------------------------------------------------------------------------
(* C26: every immediately invoked function of the source is emitted        *)
(* exactly once into the generated program, so its side effects happen     *)
(* once in the vm, as in the original program.                             *)
C26_ImmediateOnce ==
  testCode # <<>> =>
    \A i \in DOMAIN src.stmts :
      IsImmediateFunction(src.stmts[i])
      => Cardinality({k \in DOMAIN testCode :
                        testCode[k].op = "immediate" /\ testCode[k].at = i}) = 1

----------------------------------------------------------------------------
(* C27: in the generated program the preamble precedes every immediately   *)
(* invoked function, every immediately invoked function precedes every     *)
(* helper definition, and every helper definition precedes every driver    *)
(* call; the driver has one safeCall per extracted call site.              *)
C27_ProgramOrder ==
  testCode # <<>> =>
    LET rank(op) == CASE op = "silence" -> 0
                      [] op = "immediate" -> 1
                      [] op = "define" -> 2
                      [] op = "safeCall" -> 3
                      [] OTHER -> 4
    IN  /\ testCode[1].op = "silence"
        /\ \A j, k \in DOMAIN testCode :
             j < k => rank(testCode[j].op) <= rank(testCode[k].op)
        /\ Cardinality({k \in DOMAIN testCode : testCode[k].op = "safeCall"})
             = Cardinality({actualCalls[k].path : k \in DOMAIN actualCalls})

----------------------------------------------------------------------------
(* C28: the rewriter resolves the callee name as the extractor does: once  *)
(* the replacements have been applied (and are not disabled), a call       *)
(* through a member access whose property name is not reserved and names   *)
(* an extracted helper, whose argument count is in the window and whose    *)
(* printed form is a key of the result map with a representable value, is  *)
(* replaced by the literal.                                                *)
C28_MemberCallReplaced ==
  (~finalCode.null /\ ~cfg.disableReplace) =>
    \A i \in DOMAIN finalCode.stmts :
      LET s == processedCode.stmts[i]
      IN  (/\ s.t = "call" /\ s.st = "same"
           /\ s.ctype = "MemberExpression"
           /\ s.name \notin reservedKeywords
           /\ s.name \in Range(extractedFunctions)
           /\ Len(s.args) \in cfg.minArgs..cfg.maxArgs
           /\ MapHas(callExpressionMap, PrintCall(s))
           /\ IsReplaceable(MapGet(callExpressionMap, PrintCall(s))))
          => finalCode.stmts[i].st \in {"lit", "removed", "commented"}

----------------------------------------------------------------------------
(* C29: once vm.runInContext has ended, by returning or by throwing, the   *)
(* console.log of the host is the function it was before the call.         *)
C29_ConsoleLogRestored ==
  vmStatus \in {"ok", "threw"} => consoleLog = "original"

----------------------------------------------------------------------------
(* C30: when main writes its output onto the input file and backups are    *)
(* enabled, the backup file exists before the output is written; a backup  *)
(* file that exists is never written again; and after any number of runs   *)
(* that all wrote onto the input file with backups enabled, starting       *)
(* without a backup file, the backup holds the text the input file had     *)
(* before the first run.                                                   *)
C30_BackupBeforeOutput ==
  /\ [](( /\ bpc = "write"
          /\ argv.backup
          /\ FileAt(outputPath) = "input"
          /\ mainResult.text # sourceCode) => files.bak.exists)
  /\ [][files.bak.exists => files'.bak = files.bak]_vars
  /\ []((bpc = "idle" /\ hist.runs >= 1 /\ hist.fits /\ ~hist.stale)
          => files.bak = File(hist.first))

====
